---- MODULE Spec2Model ----
(***************************************************************************)
(* Kanji of the Day (kanji/app.js): the seeded date -> item selection, the  *)
(* range-bounded day navigation, the calendar picker, the URL-fragment      *)
(* synchronisation and the stroke-order animation, as one state machine.    *)
(*                                                                          *)
(* A Date is modelled by its local calendar day, counted in whole days from *)
(* the epoch 2026-01-01 (day 0): every Date the program builds is a local   *)
(* midnight, so comparing timestamps is comparing day numbers.              *)
(* A 32-bit integer is modelled as a pair <<hi, lo>> of 16-bit halves, so   *)
(* that the arithmetic of mulberry32 keeps its width.                       *)
(***************************************************************************)
EXTENDS Integers, Sequences, FiniteSets, Bags, TLC

(***************************************************************************)
(* 32-bit words                                                            *)
(***************************************************************************)
Half == 65536

\* ToUint32 of an integer of small magnitude (seed |= 0, read as unsigned).
ToWord(n) ==
  IF n >= 0
    THEN <<(n \div Half) % Half, n % Half>>
    ELSE <<(Half - 1) - ((((-n) - 1) \div Half) % Half), (Half - 1) - (((-n) - 1) % Half)>>

\* Bitwise exclusive or of two naturals.
RECURSIVE XorNat(_, _)
XorNat(a, b) ==
  IF a = 0 THEN b
  ELSE IF b = 0 THEN a
  ELSE (((a % 2) + (b % 2)) % 2) + 2 * XorNat(a \div 2, b \div 2)

\* Bitwise or of two naturals.
RECURSIVE OrNat(_, _)
OrNat(a, b) ==
  IF a = 0 THEN b
  ELSE IF b = 0 THEN a
  ELSE (IF a % 2 = 1 \/ b % 2 = 1 THEN 1 ELSE 0) + 2 * OrNat(a \div 2, b \div 2)

RECURSIVE Pow2(_)
Pow2(k) == IF k = 0 THEN 1 ELSE 2 * Pow2(k - 1)

\* a ^ b on 32-bit words.
WXor(a, b) == <<XorNat(a[1], b[1]), XorNat(a[2], b[2])>>

\* c | a for a small constant c (c < 2^16).
WOrLow(c, a) == <<a[1], OrNat(c, a[2])>>

\* (a + b) | 0, as an unsigned word.
WAdd(a, b) ==
  LET lo == a[2] + b[2]
  IN  <<(a[1] + b[1] + (lo \div Half)) % Half, lo % Half>>

\* a >>> k for 0 < k < 16.
WShr(a, k) ==
  <<a[1] \div Pow2(k), (a[2] \div Pow2(k)) + (a[1] % Pow2(k)) * Pow2(16 - k)>>

\* The low 16 bits of x * y, for 16-bit x and y.
MulLow16(x, y) == ((x * (y % 256)) + ((x * (y \div 256)) % 256) * 256) % Half

\* The full product x * y of two 16-bit halves, as a word.
MulFull16(x, y) ==
  LET p0 == x * (y % 256)
      p1 == x * (y \div 256)
      s  == p0 + (p1 % 256) * 256
  IN  <<((s \div Half) + (p1 \div 256)) % Half, s % Half>>

\* Math.imul(a, b): the low 32 bits of the product.
Imul(a, b) ==
  LET ll    == MulFull16(a[2], b[2])
      cross == (MulLow16(a[1], b[2]) + MulLow16(a[2], b[1])) % Half
  IN  <<(ll[1] + cross) % Half, ll[2]>>

\* Math.floor((u / 4294967296) * n) for a word u and 0 < n < 2^15: the
\* product is exact in double precision, so this is floor(u * n / 2^32).
ScaleFloor(u, n) == ((u[1] * n) + ((u[2] * n) \div Half)) \div Half

(***************************************************************************)
(* mulberry32 and seededShuffle                                            *)
(***************************************************************************)
\* 0x6d2b79f5
Mulberry32Increment == <<27947, 31221>>

\* One call of the generator returned by mulberry32: the closure's seed
\* after the call, and the numerator of the returned fraction (out / 2^32).
mulberry32(seed) ==
  LET s  == WAdd(seed, Mulberry32Increment)
      t1 == Imul(WXor(s, WShr(s, 15)), WOrLow(1, s))
      t2 == WXor(WAdd(t1, Imul(WXor(t1, WShr(t1, 7)), WOrLow(61, t1))), t1)
  IN  [seed |-> s, out |-> WXor(t2, WShr(t2, 14))]

\* The index j drawn for position i (0-based) from the generator output.
SwapIndex(r, i) == ScaleFloor(r.out, i + 1)

\* Swap with the second assignment lost: copy[i] = copy[j] alone.
SwapOverwrites(copy, i, j) ==
  [k \in 1..Len(copy) |-> IF k = i + 1 THEN copy[j + 1] ELSE copy[k]]

\* [copy[i], copy[j]] = [copy[j], copy[i]] on 0-based indices.
Swap(copy, i, j) ==
  [k \in 1..Len(copy) |->
     IF k = i + 1 THEN copy[j + 1] ELSE IF k = j + 1 THEN copy[i + 1] ELSE copy[k]]

\* The loop of seededShuffle from index i (0-based) downwards.
RECURSIVE ShuffleFrom(_, _, _)
ShuffleFrom(copy, seed, i) ==
  IF i > 0
    THEN LET r == mulberry32(seed)
         IN  ShuffleFrom(Swap(copy, i, SwapIndex(r, i)), r.seed, i - 1)
    ELSE copy

seededShuffle(arr, seed) == ShuffleFrom(arr, ToWord(seed), Len(arr) - 1)

(***************************************************************************)
(* Dates: a Date is the number of its local calendar day, day 0 being      *)
(* 1970-01-01; months are 0-based as in the Date API.                      *)
(***************************************************************************)
\* Days from 1970-01-01 to the first day of month m (1..12) of year y.
DaysFromCivil(y, m, d) ==
  LET yy  == IF m <= 2 THEN y - 1 ELSE y
      era == yy \div 400
      yoe == yy - era * 400
      mp  == IF m > 2 THEN m - 3 ELSE m + 9
      doy == ((153 * mp + 2) \div 5) + d - 1
      doe == yoe * 365 + (yoe \div 4) - (yoe \div 100) + doy
  IN  era * 146097 + doe - 719468

\* The calendar date <<year, month (1..12), day>> of day number z.
CivilFromDays(z) ==
  LET zz  == z + 719468
      era == zz \div 146097
      doe == zz - era * 146097
      yoe == (doe - (doe \div 1460) + (doe \div 36524) - (doe \div 146096)) \div 365
      doy == doe - (365 * yoe + (yoe \div 4) - (yoe \div 100))
      mp  == (5 * doy + 2) \div 153
      d   == doy - ((153 * mp + 2) \div 5) + 1
      m   == IF mp < 10 THEN mp + 3 ELSE mp - 9
  IN  <<IF m <= 2 THEN yoe + era * 400 + 1 ELSE yoe + era * 400, m, d>>

\* new Date(y, m, d): years 0..99 mean 1900..1999, and a month or a day
\* outside its range carries into the neighbouring months and years.
NewDate(y, m, d) ==
  LET yr == IF y >= 0 /\ y <= 99 THEN 1900 + y ELSE y
  IN  DaysFromCivil(yr + (m \div 12), (m % 12) + 1, 1) + d - 1

getFullYear(date) == CivilFromDays(date)[1]
getMonth(date) == CivilFromDays(date)[2] - 1
getDate(date) == CivilFromDays(date)[3]
\* 0 = Sunday; 1970-01-01 was a Thursday.
getDay(date) == (date + 4) % 7

\* currentDate: null
NullDate == 0 - 1000000

\* String(n) for a natural n, as a sequence of characters.
DigitChar(k) == <<"0", "1", "2", "3", "4", "5", "6", "7", "8", "9">>[k + 1]

RECURSIVE NatToString(_)
NatToString(n) ==
  IF n < 10 THEN <<DigitChar(n)>> ELSE NatToString(n \div 10) \o <<DigitChar(n % 10)>>

\* String(n) for an integer n.
IntToString(n) == IF n < 0 THEN <<"-">> \o NatToString(-n) ELSE NatToString(n)

\* No padding: the number as String() gives it.
PadStartNone(str) == str

\* str.padStart(2, "0")
PadStart2(str) == IF Len(str) < 2 THEN <<"0">> \o str ELSE str

formatDate(date) ==
  IntToString(getFullYear(date)) \o <<"-">>
    \o PadStart2(IntToString(getMonth(date) + 1)) \o <<"-">>
    \o PadStart2(IntToString(getDate(date)))

IsDigit(c) == c \in {"0", "1", "2", "3", "4", "5", "6", "7", "8", "9"}

DigitValue(c) == CHOOSE k \in 0..9 : DigitChar(k) = c

\* Number(str) for a non-empty string of decimal digits.
RECURSIVE DigitsToNumber(_)
DigitsToNumber(str) ==
  IF Len(str) = 0 THEN 0
  ELSE 10 * DigitsToNumber(SubSeq(str, 1, Len(str) - 1)) + DigitValue(str[Len(str)])

\* /^\d{4}-\d{2}-\d{2}$/.test(hash)
MatchesDatePattern(hash) ==
  /\ Len(hash) = 10
  /\ \A k \in {1, 2, 3, 4, 6, 7, 9, 10} : IsDigit(hash[k])
  /\ hash[5] = "-"
  /\ hash[8] = "-"

\* parseDate on a string that matches the pattern: split("-").map(Number).
parseDate(str) ==
  NewDate(DigitsToNumber(SubSeq(str, 1, 4)),
          DigitsToNumber(SubSeq(str, 6, 7)) - 1,
          DigitsToNumber(SubSeq(str, 9, 10)))

\* addDays(date, n); new Date(null) is 1970-01-01.
addDays(date, n) == (IF date = NullDate THEN 0 ELSE date) + n

daysBetween(a, b) == b - a

sameDay(a, b) ==
  /\ getFullYear(a) = getFullYear(b)
  /\ getMonth(a) = getMonth(b)
  /\ getDate(a) = getDate(b)

\* startDate: new Date(2026, 0, 1)
startDate == NewDate(2026, 0, 1)

(***************************************************************************)
(* Items, levels and the item source                                       *)
(***************************************************************************)
\* currentKanji: null, and the undefined read of an index outside an array.
Null == [kanji |-> "null", index |-> 0, strokePaths |-> 0]
Undefined == [kanji |-> "undefined", index |-> 0, strokePaths |-> 0]

\* Bounds of the model.
ListLen == 3
MaxStrokes == 2
MaxDay == 6
DaysBeforeEpoch == 1
MaxPending == 2
MaxTimers == 2
MaxHashEvents == 1
MaxHistory == 2
DaysAsleep == 31
MaxCalDay == 430

Levels == {"n5", "n4"}
AllLevels == {"n1", "n2", "n3", "n4", "n5"}

\* level.charCodeAt(1)
charCodeAt1(lv) ==
  CASE lv = "n1" -> 49 [] lv = "n2" -> 50 [] lv = "n3" -> 51
    [] lv = "n4" -> 52 [] lv = "n5" -> 53

\* The k-th item of data/<level>.json; strokePaths = 0 stands for an item
\* without the strokePaths property, otherwise it is the number of paths.
Item(lv, k) == [kanji |-> lv, index |-> k, strokePaths |-> k % (MaxStrokes + 1)]

\* The parsed body of data/<level>.json: n5 has ListLen items, the other
\* levels one fewer.
DataFor(lv) == [k \in 1..(IF lv = "n5" THEN ListLen ELSE ListLen - 1) |-> Item(lv, k)]

(***************************************************************************)
(* State                                                                   *)
(***************************************************************************)
VARIABLES
  started,          \* init() has been called
  kanjiList, currentKanji, currentDate, level, loading,
  calendarOpen, calendarYear, calendarMonth,
  showStrokes, strokeAnimating, strokeStep,
  now,              \* the local calendar day the clock shows: today()
  hash,             \* window.location.hash
  hashListener,     \* the hashchange listener of init is registered
  hashEvents,       \* hashchange events queued and not yet dispatched
  historyLength,    \* history.length: the entries of the session history
  fetches,          \* the bag of loadLevel calls suspended at their await
  timers,           \* setTimeout callbacks of _animateNextStroke not yet run
  thrown,           \* a handler has ended by throwing
  sel,              \* the argument of the latest call of selectKanjiForDate
  call              \* a function of the program run on its own, step by step:
                    \* its arguments, its locals and its position

vars ==
  <<started, kanjiList, currentKanji, currentDate, level, loading,
    calendarOpen, calendarYear, calendarMonth,
    showStrokes, strokeAnimating, strokeStep,
    now, hash, hashListener, hashEvents, historyLength, fetches, timers, thrown,
    sel, call>>

today == now

\* The fields of the component that selectKanjiForDate reads or writes,
\* with the location it updates.
This ==
  [kanjiList |-> kanjiList, currentKanji |-> currentKanji,
   currentDate |-> currentDate, level |-> level,
   showStrokes |-> showStrokes, strokeAnimating |-> strokeAnimating,
   strokeStep |-> strokeStep, hash |-> hash, hashEvents |-> hashEvents,
   historyLength |-> historyLength, sel |-> sel]

(***************************************************************************)
(* selectKanjiForDate                                                      *)
(***************************************************************************)
\* The clamp at the head of selectKanjiForDate, for today() = t.
Clamp(date, t) ==
  LET d1 == IF date < startDate THEN startDate ELSE date
  IN  IF d1 > t THEN t ELSE d1

\* a % b of the language: the sign of the dividend.
JsRem(a, b) == IF a >= 0 THEN a % b ELSE 0 - ((0 - a) % b)

\* shuffled[pos]: undefined outside the array.
At(shuffled, pos) ==
  IF pos >= 0 /\ pos < Len(shuffled) THEN shuffled[pos + 1] ELSE Undefined

\* A cycle number that changes with every day.
cycleNumPerDay(dayIndex, cycleLength) == dayIndex

cycleNumOf(dayIndex, cycleLength) == dayIndex \div cycleLength

posInCycleOf(dayIndex, cycleLength) == JsRem(dayIndex, cycleLength)

\* The seed with a multiplier smaller than the spread of the salts.
seedOfSmallMultiplier(cycleNum, lv) == cycleNum * 4 + charCodeAt1(lv)

seedOf(cycleNum, lv) == cycleNum * 31 + charCodeAt1(lv)

\* Lines 107-115: the item for the clamped date.
Resolve(list, lv, date) ==
  LET dayIndex    == daysBetween(startDate, date)
      cycleLength == Len(list)
      cycleNum    == cycleNumOf(dayIndex, cycleLength)
      posInCycle  == posInCycleOf(dayIndex, cycleLength)
      seed        == seedOf(cycleNum, lv)
  IN  At(seededShuffle(list, seed), posInCycle)

\* selectKanjiForDate resolving the item from its argument, not from the
\* clamped date.
selectKanjiForDateUnclamped(self, date) ==
  LET d == Clamp(date, today)
  IN  IF Len(self.kanjiList) = 0
        THEN [self EXCEPT !.currentDate = d, !.currentKanji = Null, !.sel = date]
        ELSE [self EXCEPT
                !.currentDate     = d,
                !.currentKanji    = Resolve(self.kanjiList, self.level, date),
                !.showStrokes     = FALSE,
                !.strokeAnimating = FALSE,
                !.strokeStep      = -1,
                !.hash            = <<"#">> \o formatDate(d),
                !.sel             = date]

\* selectKanjiForDate without the empty-list return: the index read of an
\* empty array leaves currentKanji undefined.
selectKanjiForDateNoEmptyCheck(self, date) ==
  LET d == Clamp(date, today)
      k == IF Len(self.kanjiList) = 0
             THEN Undefined
             ELSE Resolve(self.kanjiList, self.level, d)
  IN  [self EXCEPT
         !.currentDate     = d,
         !.currentKanji    = k,
         !.showStrokes     = FALSE,
         !.strokeAnimating = FALSE,
         !.strokeStep      = -1,
         !.hash            = <<"#">> \o formatDate(d),
         !.sel             = date]

\* selectKanjiForDate writing the fragment by assignment to location.hash:
\* a navigation, which adds a history entry and queues a hashchange event.
selectKanjiForDateAssignsHash(self, date) ==
  LET d == Clamp(date, today)
      h == <<"#">> \o formatDate(d)
  IN  IF Len(self.kanjiList) = 0
        THEN [self EXCEPT !.currentDate = d, !.currentKanji = Null, !.sel = date]
        ELSE [self EXCEPT
                !.currentDate     = d,
                !.currentKanji    = Resolve(self.kanjiList, self.level, d),
                !.showStrokes     = FALSE,
                !.strokeAnimating = FALSE,
                !.strokeStep      = -1,
                !.hash            = h,
                !.hashEvents      = IF self.hash = h THEN @ ELSE @ + 1,
                !.historyLength   = IF self.hash = h THEN @ ELSE @ + 1,
                !.sel             = date]

\* selectKanjiForDate(date) run on the component state self.
selectKanjiForDate(self, date) ==
  LET t == today
      d == Clamp(date, t)
  IN  IF Len(self.kanjiList) = 0
        THEN [self EXCEPT
                !.currentDate  = d,
                !.currentKanji = Null,
                !.sel          = date]
        ELSE LET k == Resolve(self.kanjiList, self.level, d)
             IN  [self EXCEPT
                    !.currentDate     = d,
                    !.currentKanji    = k,
                    !.showStrokes     = FALSE,
                    !.strokeAnimating = FALSE,
                    !.strokeStep      = -1,
                    !.hash            = <<"#">> \o formatDate(d),
                    !.sel             = date]

\* navigateToHash staying on the selected date, not going to today, when
\* the fragment is absent or malformed.
navigateToHashStays(self) ==
  LET h == IF Len(self.hash) = 0 THEN <<>> ELSE Tail(self.hash)
  IN  IF Len(h) > 0 /\ MatchesDatePattern(h)
        THEN selectKanjiForDate(self, parseDate(h))
        ELSE selectKanjiForDate(self, self.currentDate)

\* navigateToHash() run on the component state self.
navigateToHash(self) ==
  LET h == IF Len(self.hash) = 0 THEN <<>> ELSE Tail(self.hash)
  IN  IF Len(h) > 0 /\ MatchesDatePattern(h)
        THEN selectKanjiForDate(self, parseDate(h))
        ELSE selectKanjiForDate(self, today)

\* The component state self becomes the state.
Commit(self) ==
  /\ kanjiList' = self.kanjiList
  /\ currentKanji' = self.currentKanji
  /\ currentDate' = self.currentDate
  /\ level' = self.level
  /\ showStrokes' = self.showStrokes
  /\ strokeAnimating' = self.strokeAnimating
  /\ strokeStep' = self.strokeStep
  /\ hash' = self.hash
  /\ hashEvents' = self.hashEvents
  /\ historyLength' = self.historyLength
  /\ sel' = self.sel

calendarVars == <<calendarOpen, calendarYear, calendarMonth>>
strokeVars == <<showStrokes, strokeAnimating, strokeStep>>
selectionVars == <<kanjiList, currentKanji, currentDate, level, hash, sel>>

(***************************************************************************)
(* Initial state: the object kanjiApp() returns, before init() runs.       *)
(***************************************************************************)
NoFunctionCall == [fn |-> "none"]

Created ==
  /\ started = FALSE
  /\ kanjiList = <<>>
  /\ currentKanji = Null
  /\ currentDate = NullDate
  /\ level = "n5"
  /\ loading = TRUE
  /\ calendarOpen = FALSE
  /\ calendarYear = 2026
  /\ calendarMonth = 0
  /\ showStrokes = FALSE
  /\ strokeAnimating = FALSE
  /\ strokeStep = -1
  /\ now = startDate - DaysBeforeEpoch
  /\ hash = <<>>
  /\ hashListener = FALSE
  /\ hashEvents = 0
  /\ historyLength = 1
  /\ fetches = EmptyBag
  /\ timers = 0
  /\ thrown = FALSE
  /\ sel = NullDate

Init == Created /\ call = NoFunctionCall

(***************************************************************************)
(* The environment: the clock, the item source, the address bar            *)
(***************************************************************************)
\* Midnight passes.
Tick ==
  /\ now < startDate + MaxDay
  /\ now' = now + 1
  /\ UNCHANGED <<started, loading, calendarVars, strokeVars, selectionVars,
                 hashListener, hashEvents, historyLength, fetches,
                 timers, thrown>>
  /\ UNCHANGED call

\* The page is left open, or the device asleep, for DaysAsleep days.
Sleep ==
  /\ now + DaysAsleep <= startDate + MaxCalDay
  /\ now' = now + DaysAsleep
  /\ UNCHANGED <<started, loading, calendarVars, strokeVars, selectionVars,
                 hashListener, hashEvents, historyLength, fetches, timers, thrown>>
  /\ UNCHANGED call

\* The fragments the address bar is given from outside the program.
ExternalHashes ==
  { <<>>,
    <<"#", "2", "0", "2", "6", "-", "0", "1", "-", "0", "3">>,
    <<"#", "2", "0", "2", "5", "-", "1", "2", "-", "2", "5">>,
    <<"#", "2", "0", "2", "5", "-", "1", "3", "-", "4", "5">>,
    <<"#", "2", "0", "2", "6", "-", "1", "-", "3">> }

\* The page is opened with fragment h (before init), or the user edits the
\* fragment of the loaded page (after it): the navigation adds an entry to
\* the session history and queues a hashchange event.
ExternalHashChange(h) ==
  /\ h # hash
  /\ started => (hashEvents < MaxHashEvents /\ historyLength < MaxHistory)
  /\ hash' = h
  /\ hashEvents' = IF started THEN hashEvents + 1 ELSE hashEvents
  /\ historyLength' = IF started THEN historyLength + 1 ELSE historyLength
  /\ UNCHANGED <<started, kanjiList, currentKanji, currentDate, level, loading,
                 calendarVars, strokeVars, now, hashListener, fetches, timers,
                 thrown, sel>>
  /\ UNCHANGED call

(***************************************************************************)
(* init and loadLevel                                                      *)
(***************************************************************************)
\* init() up to the await of loadLevel(this.level), itself up to its await.
init ==
  /\ ~started
  /\ started' = TRUE
  /\ loading' = TRUE
  /\ level' = level
  /\ fetches' = fetches (+) SetToBag({[level |-> level, init |-> TRUE]})
  /\ UNCHANGED <<kanjiList, currentKanji, currentDate, calendarVars, strokeVars,
                 now, hash, hashListener, hashEvents, historyLength, timers,
                 thrown, sel>>
  /\ UNCHANGED call

\* loadLevel(lv) up to its await: a level button.
loadLevel(lv) ==
  /\ started
  /\ BagCardinality(fetches) < MaxPending
  /\ loading' = TRUE
  /\ level' = lv
  /\ fetches' = fetches (+) SetToBag({[level |-> lv, init |-> FALSE]})
  /\ UNCHANGED <<started, kanjiList, currentKanji, currentDate, calendarVars,
                 strokeVars, now, hash, hashListener, hashEvents, historyLength,
                 timers, thrown,
                 sel>>
  /\ UNCHANGED call

\* The rest of the suspended loadLevel call f: the fetch and the parse have
\* succeeded (ok) or one of them has failed; when the call is init's, the
\* rest of init follows in the same turn.
loadLevelResume(f, ok) ==
  /\ BagIn(f, fetches)
  /\ LET loaded == [This EXCEPT !.kanjiList = IF ok THEN DataFor(f.level) ELSE <<>>]
         date   == IF loaded.currentDate # NullDate THEN loaded.currentDate ELSE today
     IN  /\ \E after \in {selectKanjiForDate(loaded, date)} :
              \E r \in {IF f.init THEN navigateToHash(after) ELSE after} : Commit(r)
         /\ hashListener' = IF f.init THEN TRUE ELSE hashListener
  /\ loading' = FALSE
  /\ fetches' = fetches (-) SetToBag({f})
  /\ UNCHANGED <<started, calendarVars, now, timers, thrown>>
  /\ UNCHANGED call

(***************************************************************************)
(* Day navigation and the fragment                                         *)
(***************************************************************************)
prevDay ==
  /\ started
  /\ (\E r \in {selectKanjiForDate(This, addDays(currentDate, -1))} : Commit(r))
  /\ UNCHANGED <<started, loading, calendarVars, now, hashListener,
                 fetches, timers, thrown>>
  /\ UNCHANGED call

nextDay ==
  /\ started
  /\ (\E r \in {selectKanjiForDate(This, addDays(currentDate, 1))} : Commit(r))
  /\ UNCHANGED <<started, loading, calendarVars, now, hashListener,
                 fetches, timers, thrown>>
  /\ UNCHANGED call

goToday ==
  /\ started
  /\ (\E r \in {selectKanjiForDate(This, today)} : Commit(r))
  /\ UNCHANGED <<started, loading, calendarVars, now, hashListener,
                 fetches, timers, thrown>>
  /\ UNCHANGED call

\* A queued hashchange event is dispatched: the listener, when registered,
\* calls navigateToHash().
hashchange ==
  /\ hashEvents > 0
  /\ LET dispatched == [This EXCEPT !.hashEvents = hashEvents - 1]
     IN  \E r \in {IF hashListener THEN navigateToHash(dispatched) ELSE dispatched} :
           Commit(r)
  /\ UNCHANGED <<started, loading, calendarVars, now, hashListener, fetches,
                 timers, thrown>>
  /\ UNCHANGED call

(***************************************************************************)
(* The calendar picker                                                     *)
(***************************************************************************)
toggleCalendar ==
  /\ started
  /\ IF ~calendarOpen /\ currentDate # NullDate
       THEN /\ calendarYear' = getFullYear(currentDate)
            /\ calendarMonth' = getMonth(currentDate)
       ELSE UNCHANGED <<calendarYear, calendarMonth>>
  /\ calendarOpen' = ~calendarOpen
  /\ UNCHANGED <<started, loading, strokeVars, selectionVars, now, hashListener,
                 hashEvents, historyLength, fetches, timers, thrown>>
  /\ UNCHANGED call

closeCalendar ==
  /\ started
  /\ calendarOpen' = FALSE
  /\ UNCHANGED <<calendarYear, calendarMonth>>
  /\ UNCHANGED <<started, loading, strokeVars, selectionVars, now, hashListener,
                 hashEvents, historyLength, fetches, timers, thrown>>
  /\ UNCHANGED call

calendarPrevMonth ==
  /\ started
  /\ calendarOpen
  /\ IF calendarMonth = 0
       THEN IF calendarYear > 2026
              THEN calendarYear' = calendarYear - 1 /\ calendarMonth' = 11
              ELSE UNCHANGED <<calendarYear, calendarMonth>>
       ELSE calendarMonth' = calendarMonth - 1 /\ calendarYear' = calendarYear
  /\ UNCHANGED <<started, loading, calendarOpen, strokeVars, selectionVars, now,
                 hashListener, hashEvents, historyLength, fetches,
                 timers, thrown>>
  /\ UNCHANGED call

\* The month and year calendarNextMonth and canCalendarNext look at.
NextMonthOf(y, m) ==
  LET nextMonth == m + 1
  IN  [year |-> IF nextMonth > 11 THEN y + 1 ELSE y,
       month |-> IF nextMonth > 11 THEN 0 ELSE nextMonth]

PastCurrentMonth(n, t) ==
  \/ n.year > getFullYear(t)
  \/ (n.year = getFullYear(t) /\ n.month > getMonth(t))

calendarNextMonth ==
  /\ started
  /\ calendarOpen
  /\ LET n == NextMonthOf(calendarYear, calendarMonth)
     IN  IF PastCurrentMonth(n, today)
           THEN UNCHANGED <<calendarYear, calendarMonth>>
           ELSE calendarMonth' = n.month /\ calendarYear' = n.year
  /\ UNCHANGED <<started, loading, calendarOpen, strokeVars, selectionVars, now,
                 hashListener, hashEvents, historyLength, fetches,
                 timers, thrown>>
  /\ UNCHANGED call

canCalendarPrev == ~(calendarYear = 2026 /\ calendarMonth = 0)

canCalendarNext == ~PastCurrentMonth(NextMonthOf(calendarYear, calendarMonth), today)

\* A blank cell { day: null }: day 0, no date.
BlankCell ==
  [day |-> 0, date |-> NullDate, disabled |-> FALSE, isToday |-> FALSE,
   isSelected |-> FALSE]

\* calendarDays with today among the future days.
calendarDaysTodayIsFuture ==
  LET firstDay    == NewDate(calendarYear, calendarMonth, 1)
      lastDay     == NewDate(calendarYear, calendarMonth + 1, 0)
      startDow    == getDay(firstDay)
      daysInMonth == getDate(lastDay)
      t           == today
      minDate     == startDate
  IN  [i \in 1..startDow |-> BlankCell] \o
      [d \in 1..daysInMonth |->
         LET date == NewDate(calendarYear, calendarMonth, d)
         IN  [day |-> d, date |-> date,
              disabled |-> (date >= t \/ date < minDate),
              isToday |-> sameDay(date, t),
              isSelected |-> (currentDate # NullDate /\ sameDay(date, currentDate))]]

\* The getter calendarDays.
calendarDays ==
  LET firstDay    == NewDate(calendarYear, calendarMonth, 1)
      lastDay     == NewDate(calendarYear, calendarMonth + 1, 0)
      startDow    == getDay(firstDay)
      daysInMonth == getDate(lastDay)
      t           == today
      minDate     == startDate
  IN  [i \in 1..startDow |-> BlankCell] \o
      [d \in 1..daysInMonth |->
         LET date == NewDate(calendarYear, calendarMonth, d)
         IN  [day |-> d, date |-> date,
              disabled |-> (date > t \/ date < minDate),
              isToday |-> sameDay(date, t),
              isSelected |-> (currentDate # NullDate /\ sameDay(date, currentDate))]]

\* selectCalendarDay(cell).
selectCalendarDay(cell) ==
  /\ IF cell.disabled \/ cell.date = NullDate
       THEN UNCHANGED <<selectionVars, strokeVars, calendarOpen, hashEvents,
                        historyLength>>
       ELSE /\ (\E r \in {selectKanjiForDate(This, cell.date)} : Commit(r))
            /\ calendarOpen' = FALSE
  /\ UNCHANGED <<started, loading, calendarYear, calendarMonth, now,
                 hashListener, fetches, timers, thrown>>
  /\ UNCHANGED call

\* A click on a cell of the grid the open calendar shows.
clickCalendarDay ==
  /\ started
  /\ calendarOpen
  /\ \E cells \in {calendarDays} : \E i \in DOMAIN cells : selectCalendarDay(cells[i])

(***************************************************************************)
(* The stroke-order animation                                              *)
(***************************************************************************)
toggleStrokes ==
  /\ started
  /\ showStrokes' = ~showStrokes
  /\ IF ~showStrokes
       THEN strokeStep' = -1 /\ strokeAnimating' = FALSE
       ELSE UNCHANGED <<strokeStep, strokeAnimating>>
  /\ UNCHANGED <<started, loading, calendarVars, selectionVars, now,
                 hashListener, hashEvents, historyLength, fetches,
                 timers, thrown>>
  /\ UNCHANGED call

\* this.currentKanji?.strokePaths is defined.
HasStrokePaths(k) == k # Null /\ k # Undefined /\ k.strokePaths > 0

\* this.currentKanji.strokePaths.length, 0 without stroke paths.
StrokeCount == IF HasStrokePaths(currentKanji) THEN currentKanji.strokePaths ELSE 0

\* _animateNextStroke() with strokeStep = step and strokeAnimating = anim:
\* what it leaves in strokeStep and strokeAnimating, whether it sets a
\* timer, and whether it throws on currentKanji.strokePaths.length.
animateNextStroke(k, step, anim) ==
  IF ~anim
    THEN [strokeStep |-> step, strokeAnimating |-> anim, timer |-> 0, throws |-> FALSE]
  ELSE IF ~HasStrokePaths(k)
    THEN [strokeStep |-> step, strokeAnimating |-> anim, timer |-> 0, throws |-> TRUE]
  ELSE IF step >= k.strokePaths
    THEN [strokeStep |-> -1, strokeAnimating |-> FALSE, timer |-> 0, throws |-> FALSE]
  ELSE [strokeStep |-> step, strokeAnimating |-> anim, timer |-> 1, throws |-> FALSE]

playStrokes ==
  /\ started
  /\ timers < MaxTimers
  /\ IF ~HasStrokePaths(currentKanji)
       THEN UNCHANGED <<strokeVars, timers, thrown>>
       ELSE LET r == animateNextStroke(currentKanji, 0, TRUE)
            IN  /\ showStrokes' = TRUE
                /\ strokeAnimating' = r.strokeAnimating
                /\ strokeStep' = r.strokeStep
                /\ timers' = timers + r.timer
                /\ thrown' = (thrown \/ r.throws)
  /\ UNCHANGED <<started, loading, calendarVars, selectionVars, now,
                 hashListener, hashEvents, historyLength, fetches>>
  /\ UNCHANGED call

\* A timer set by _animateNextStroke runs its callback.
strokeTimer ==
  /\ timers > 0
  /\ LET r == animateNextStroke(currentKanji, strokeStep + 1, strokeAnimating)
     IN  /\ strokeAnimating' = r.strokeAnimating
         /\ strokeStep' = r.strokeStep
         /\ timers' = timers - 1 + r.timer
         /\ thrown' = (thrown \/ r.throws)
  /\ UNCHANGED <<started, loading, calendarVars, showStrokes, selectionVars, now,
                 hashListener, hashEvents, historyLength, fetches>>
  /\ UNCHANGED call

(***************************************************************************)
(* The getters the page shows                                              *)
(***************************************************************************)
\* this.currentDate && sameDay(this.currentDate, today())
isToday == currentDate # NullDate /\ sameDay(currentDate, today)

\* this.currentDate && sameDay(this.currentDate, this.startDate)
isStart == currentDate # NullDate /\ sameDay(currentDate, startDate)

\* dayNumber: 0 without a date, else the days since the epoch plus one.
dayNumber ==
  IF currentDate = NullDate THEN 0 ELSE daysBetween(startDate, currentDate) + 1

(***************************************************************************)
(* Specification                                                           *)
(***************************************************************************)
Next ==
  \/ Tick
  \/ Sleep
  \/ \E h \in ExternalHashes : ExternalHashChange(h)
  \/ init
  \/ \E lv \in Levels : loadLevel(lv)
  \/ \E f \in BagToSet(fetches), ok \in BOOLEAN : loadLevelResume(f, ok)
  \/ prevDay
  \/ nextDay
  \/ goToday
  \/ hashchange
  \/ toggleCalendar
  \/ closeCalendar
  \/ calendarPrevMonth
  \/ calendarNextMonth
  \/ clickCalendarDay
  \/ toggleStrokes
  \/ playStrokes
  \/ strokeTimer

Spec == Init /\ [][Next]_vars

\* Navigation within the level the page starts with: no level button is
\* used, the stroke panel is left untouched and the calendar is opened only
\* to pick a day of the month it opens on.
NavNext ==
  \/ Tick
  \/ \E h \in ExternalHashes : ExternalHashChange(h)
  \/ init
  \/ \E f \in BagToSet(fetches), ok \in BOOLEAN : loadLevelResume(f, ok)
  \/ prevDay
  \/ nextDay
  \/ goToday
  \/ hashchange
  \/ toggleCalendar
  \/ clickCalendarDay

NavSpec == Init /\ [][NavNext]_vars

\* The address bar and the day buttons within the level the page starts
\* with: no level button is used, the calendar and the stroke panel are
\* left untouched.
HashNext ==
  \/ Tick
  \/ \E h \in ExternalHashes : ExternalHashChange(h)
  \/ init
  \/ \E f \in BagToSet(fetches), ok \in BOOLEAN : loadLevelResume(f, ok)
  \/ prevDay
  \/ nextDay
  \/ goToday
  \/ hashchange

HashSpec == Init /\ [][HashNext]_vars

\* The calendar over more than a year: the Today button and the month
\* arrows; the day buttons, the cells of the grid, the level buttons, the
\* address bar and the stroke panel are left untouched.
CalNext ==
  \/ Sleep
  \/ init
  \/ \E f \in BagToSet(fetches), ok \in BOOLEAN : loadLevelResume(f, ok)
  \/ goToday
  \/ toggleCalendar
  \/ closeCalendar
  \/ calendarPrevMonth
  \/ calendarNextMonth

CalSpec == Init /\ [][CalNext]_vars

\* Level switches and day navigation: the address bar, the calendar and the
\* stroke panel are left untouched.
LoadNext ==
  \/ Tick
  \/ init
  \/ \E lv \in Levels : loadLevel(lv)
  \/ \E f \in BagToSet(fetches), ok \in BOOLEAN : loadLevelResume(f, ok)
  \/ prevDay
  \/ nextDay
  \/ goToday

LoadSpec == Init /\ [][LoadNext]_vars

\* Level switches, the Today button and the stroke panel: the day arrows,
\* the address bar and the calendar are left untouched.
AnimNext ==
  \/ Tick
  \/ init
  \/ \E lv \in Levels : loadLevel(lv)
  \/ \E f \in BagToSet(fetches), ok \in BOOLEAN : loadLevelResume(f, ok)
  \/ goToday
  \/ toggleStrokes
  \/ playStrokes
  \/ strokeTimer

AnimSpec == Init /\ [][AnimNext]_vars

\* The stroke panel on the item of the day, with timers that keep firing: a
\* callback set by setTimeout is run once its delay has passed.
PlayNext ==
  \/ Tick
  \/ init
  \/ \E f \in BagToSet(fetches), ok \in BOOLEAN : loadLevelResume(f, ok)
  \/ goToday
  \/ toggleStrokes
  \/ playStrokes
  \/ strokeTimer

PlaySpec == Init /\ [][PlayNext]_vars /\ WF_vars(strokeTimer)

(***************************************************************************)
(* seededShuffle run on its own, one loop iteration per step                *)
(***************************************************************************)
MaxShuffleLen == 3
MaxSeed == 40

ShuffleElems == {"a", "b", "c"}

\* The arrays given to seededShuffle: every array of at most MaxShuffleLen
\* elements, equal elements included.
ShuffleLists == UNION {[1..n -> ShuffleElems] : n \in 0..MaxShuffleLen}

\* The seeds given to it: the small ones, and the ends of the int32 range.
ShuffleSeeds == ((0 - MaxSeed)..MaxSeed) \cup {2147483647, 0 - 2147483647}

ShuffleInit ==
  /\ Created
  /\ \E arr \in ShuffleLists, seed \in ShuffleSeeds :
       call = [fn |-> "seededShuffle", pc |-> "call", input |-> arr, arr |-> arr,
               seed |-> seed, copy |-> <<>>, rng |-> ToWord(0), i |-> 0,
               at |-> 0, j |-> 0, drawn |-> FALSE]

\* const copy = [...arr]; const rng = mulberry32(seed); let i = copy.length - 1
ShuffleEnter ==
  /\ call.fn = "seededShuffle" /\ call.pc = "call"
  /\ call' = [call EXCEPT !.pc = "loop", !.copy = call.arr,
                          !.rng = ToWord(call.seed), !.i = Len(call.arr) - 1]
  /\ UNCHANGED <<started, kanjiList, currentKanji, currentDate, level, loading,
                 calendarVars, strokeVars, now, hash, hashListener, hashEvents,
                 historyLength,
                 fetches, timers, thrown, sel>>

\* One iteration of the loop: i > 0.
ShuffleLoop ==
  /\ call.fn = "seededShuffle" /\ call.pc = "loop"
  /\ call.i > 0
  /\ \E r \in {mulberry32(call.rng)} :
       call' = [call EXCEPT !.copy = Swap(call.copy, call.i, SwapIndex(r, call.i)),
                            !.rng = r.seed, !.i = call.i - 1,
                            !.at = call.i, !.j = SwapIndex(r, call.i),
                            !.drawn = TRUE]
  /\ UNCHANGED <<started, kanjiList, currentKanji, currentDate, level, loading,
                 calendarVars, strokeVars, now, hash, hashListener, hashEvents,
                 historyLength,
                 fetches, timers, thrown, sel>>

\* The loop ends: return copy.
ShuffleReturn ==
  /\ call.fn = "seededShuffle" /\ call.pc = "loop"
  /\ ~(call.i > 0)
  /\ call' = [call EXCEPT !.pc = "done"]
  /\ UNCHANGED <<started, kanjiList, currentKanji, currentDate, level, loading,
                 calendarVars, strokeVars, now, hash, hashListener, hashEvents,
                 historyLength,
                 fetches, timers, thrown, sel>>

ShuffleNext == ShuffleEnter \/ ShuffleLoop \/ ShuffleReturn

ShuffleSpec == ShuffleInit /\ [][ShuffleNext]_vars

(***************************************************************************)
(* The seed of selectKanjiForDate computed for two (cycle, level) pairs    *)
(***************************************************************************)
MaxCycle == 12

\* Cycle numbers: those of the dates from the epoch on, and -1.
SeedCycles == (0 - 1)..MaxCycle

SeedInit ==
  /\ Created
  /\ \E c1 \in SeedCycles, c2 \in SeedCycles, l1 \in AllLevels, l2 \in AllLevels :
       call = [fn |-> "seed", pc |-> "call",
               a |-> [cycleNum |-> c1, level |-> l1],
               b |-> [cycleNum |-> c2, level |-> l2],
               seedA |-> 0, seedB |-> 0]

\* const seed = cycleNum * 31 + this.level.charCodeAt(1), for both pairs.
SeedCompute ==
  /\ call.fn = "seed" /\ call.pc = "call"
  /\ call' = [call EXCEPT !.pc = "done",
                          !.seedA = seedOf(call.a.cycleNum, call.a.level),
                          !.seedB = seedOf(call.b.cycleNum, call.b.level)]
  /\ UNCHANGED <<started, kanjiList, currentKanji, currentDate, level, loading,
                 calendarVars, strokeVars, now, hash, hashListener, hashEvents,
                 historyLength,
                 fetches, timers, thrown, sel>>

SeedNext == SeedCompute

SeedSpec == SeedInit /\ [][SeedNext]_vars

(***************************************************************************)
(* formatDate and parseDate run on their own: a date is encoded as the     *)
(* fragment and the fragment is read back                                  *)
(***************************************************************************)
MaxTripDay == 800

\* Everything but the function run on its own.
componentVars ==
  <<started, kanjiList, currentKanji, currentDate, level, loading,
    calendarVars, strokeVars, now, hash, hashListener, hashEvents,
    historyLength, fetches, timers, thrown, sel>>

\* The dates from the epoch on: 2026-01-01 to 2028-03-11, the leap day of
\* 2028 included.
TripDays == startDate..(startDate + MaxTripDay)

TripInit ==
  /\ Created
  /\ \E d \in TripDays :
       call = [fn |-> "formatDate", pc |-> "call", date |-> d, str |-> <<>>,
               matches |-> FALSE, parsed |-> NullDate]

\* const hash = `#${formatDate(date)}`, and the test navigateToHash makes of
\* hash.slice(1).
TripFormat ==
  /\ call.fn = "formatDate" /\ call.pc = "call"
  /\ \E str \in {formatDate(call.date)} :
       call' = [call EXCEPT !.pc = "formatted", !.str = str,
                            !.matches = (Len(str) > 0 /\ MatchesDatePattern(str))]
  /\ UNCHANGED componentVars

\* parseDate(hash), which navigateToHash calls when the test succeeds.
TripParse ==
  /\ call.fn = "formatDate" /\ call.pc = "formatted" /\ call.matches
  /\ call' = [call EXCEPT !.pc = "parsed", !.parsed = parseDate(call.str)]
  /\ UNCHANGED componentVars

TripNext == TripFormat \/ TripParse

TripSpec == TripInit /\ [][TripNext]_vars

(***************************************************************************)
(* The selection run on its own over the dates of one cycle, one date per  *)
(* step                                                                    *)
(***************************************************************************)
MaxCycleLen == 4

\* A list of n different items of level lv.
ItemsOf(lv, n) == [k \in 1..n |-> Item(lv, k)]

CycleInit ==
  /\ Created
  /\ \E lv \in AllLevels, n \in 1..MaxCycleLen, k \in 0..MaxCycle :
       call = [fn |-> "cycle", pc |-> "loop", level |-> lv, list |-> ItemsOf(lv, n),
               cycle |-> k, offset |-> 0, seeds |-> {}, cycleNums |-> {},
               positions |-> <<>>, picked |-> <<>>]

\* Lines 107-115 for the date epoch + cycle * L + offset.
CycleSelect ==
  /\ call.fn = "cycle" /\ call.pc = "loop"
  /\ call.offset < Len(call.list)
  /\ LET date        == addDays(startDate, call.cycle * Len(call.list) + call.offset)
         dayIndex    == daysBetween(startDate, date)
         cycleLength == Len(call.list)
         cycleNum    == cycleNumOf(dayIndex, cycleLength)
         posInCycle  == posInCycleOf(dayIndex, cycleLength)
     IN  call' = [call EXCEPT
                    !.offset    = @ + 1,
                    !.cycleNums = @ \cup {cycleNum},
                    !.seeds     = @ \cup {seedOf(cycleNum, call.level)},
                    !.positions = Append(@, posInCycle),
                    !.picked    = Append(@, Resolve(call.list, call.level, date))]
  /\ UNCHANGED componentVars

\* The last date of the cycle has been resolved.
CycleEnd ==
  /\ call.fn = "cycle" /\ call.pc = "loop"
  /\ call.offset = Len(call.list)
  /\ call' = [call EXCEPT !.pc = "done"]
  /\ UNCHANGED componentVars

CycleNext == CycleSelect \/ CycleEnd

CycleSpec == CycleInit /\ [][CycleNext]_vars

(***************************************************************************)
(* Properties                                                              *)
(***************************************************************************)
\* A step in which a handler has called selectKanjiForDate: sel' is then
\* the argument of the (last) call, made with today() = now.
SelectionStep ==
  \/ (sel' = addDays(currentDate, -1) /\ prevDay)
  \/ (sel' = addDays(currentDate, 1) /\ nextDay)
  \/ (sel' = now /\ goToday)
  \/ (hashEvents' # hashEvents /\ hashListener /\ hashchange)
  \/ (calendarOpen /\ ~calendarOpen' /\ clickCalendarDay)
  \/ (fetches' # fetches
        /\ \E f \in BagToSet(fetches), ok \in BOOLEAN : loadLevelResume(f, ok))

\* C1 as stated: with the level and the list fixed and no load pending, a
\* call of selectKanjiForDate with the same argument d as the call before it
\* resolves the same currentKanji, whatever happened in between. Stated
\* for clocks from the epoch on only.
C1_SameArgumentSameKanji ==
  [][(/\ ~loading /\ ~loading'
      /\ level' = level /\ kanjiList' = kanjiList
      /\ sel # NullDate /\ sel' = sel
      /\ currentDate >= startDate /\ currentDate' >= startDate)
     => currentKanji' = currentKanji]_vars

\* C1 amended: in every reachable state with no load pending, whatever
\* handlers ran before and in whatever order, currentKanji is the item that
\* the level, the list and the selected (clamped) date determine, or null
\* for an empty list: the same selected date gives the same item.
C1_SameDateSameKanji ==
  (~loading /\ currentDate # NullDate) =>
    currentKanji = IF Len(kanjiList) = 0
                     THEN Null
                     ELSE Resolve(kanjiList, level, currentDate)

\* C1 witness: the latest call asked for tomorrow and was clamped to today,
\* a day after the epoch, and resolved an item of the list.
C1_Witness ==
  /\ ~loading
  /\ Len(kanjiList) > 0
  /\ now > startDate
  /\ sel = now + 1
  /\ currentDate = now
  /\ \E k \in DOMAIN kanjiList : currentKanji = kanjiList[k]

\* C2: in every step that calls selectKanjiForDate(d), whatever the clock
\* shows: d < epoch selects the epoch, d > today selects today, and a d
\* with epoch <= d <= today is selected unchanged.
C2_ClampCases ==
  [][SelectionStep =>
       /\ (sel' < startDate => currentDate' = startDate)
       /\ (sel' > now => currentDate' = now)
       /\ ((startDate <= sel' /\ sel' <= now) => currentDate' = sel')]_vars

\* C3: once a selection has been made, currentDate lies in [epoch, today].
C3_DateInRange ==
  currentDate # NullDate => (startDate <= currentDate /\ currentDate <= now)

\* C5: with a non-empty list of length L, the cycle number of the selected
\* date is >= 0, its position is in [0, L), cycle * L + position is the
\* day index, and currentKanji is an element of kanjiList.
C5_IndexInRange ==
  Len(kanjiList) > 0 =>
    LET L          == Len(kanjiList)
        dayIndex   == daysBetween(startDate, currentDate)
        cycleNum   == cycleNumOf(dayIndex, L)
        posInCycle == posInCycleOf(dayIndex, L)
    IN  /\ cycleNum >= 0
        /\ 0 <= posInCycle /\ posInCycle < L
        /\ cycleNum * L + posInCycle = dayIndex
        /\ \E k \in DOMAIN kanjiList : currentKanji = kanjiList[k]

\* C4: seededShuffle never writes to its argument; every index j it draws
\* for position i satisfies 0 <= j <= i; and what it returns has the length
\* and the multiset of elements of the argument, is the argument itself
\* when that has at most one element, and is what the one-step definition
\* of seededShuffle gives.
C4_ShufflePermutes ==
  call.fn = "seededShuffle" =>
    /\ call.arr = call.input
    /\ (call.drawn => (0 <= call.j /\ call.j <= call.at))
    /\ (call.pc = "done" =>
          /\ Len(call.copy) = Len(call.input)
          /\ \A e \in ShuffleElems :
               Cardinality({k \in DOMAIN call.copy : call.copy[k] = e})
                 = Cardinality({k \in DOMAIN call.input : call.input[k] = e})
          /\ (Len(call.input) <= 1 => call.copy = call.input)
          /\ call.copy = seededShuffle(call.input, call.seed))

\* C4 witness: a shuffle of an array of three different elements has
\* returned them in another order.
C4_Witness ==
  /\ call.fn = "seededShuffle"
  /\ call.pc = "done"
  /\ call.input = <<"a", "b", "c">>
  /\ call.copy # call.input

\* C6: the salts of the levels n1..n5 are pairwise different, and two
\* (cycleNumber, level) pairs that differ give different seeds, also as the
\* 32-bit values mulberry32 starts from.
C6_SeedsDiffer ==
  /\ \A l1 \in AllLevels, l2 \in AllLevels :
       l1 # l2 => charCodeAt1(l1) # charCodeAt1(l2)
  /\ (call.fn = "seed" /\ call.pc = "done" /\ call.a # call.b) =>
       (call.seedA # call.seedB /\ ToWord(call.seedA) # ToWord(call.seedB))

\* C6 witness: the seeds of two pairs that differ both in the cycle and in
\* the level have been computed, and lie closer than the multiplier.
C6_Witness ==
  /\ call.fn = "seed"
  /\ call.pc = "done"
  /\ call.a.cycleNum = call.b.cycleNum + 1
  /\ call.a.level = "n1"
  /\ call.b.level = "n5"
  /\ call.seedA - call.seedB < 31

\* C7: a step that resumes a loadLevel whose fetch or parse has failed
\* leaves kanjiList empty and currentKanji null, leaves currentDate set to a
\* date not after today (and not before the epoch unless today is), sets
\* loading to false and throws nothing.
C7_FailedLoadIsEmptyCategory ==
  [][(\E f \in BagToSet(fetches) : loadLevelResume(f, FALSE)) =>
       /\ kanjiList' = <<>>
       /\ currentKanji' = Null
       /\ currentDate' # NullDate
       /\ currentDate' <= now
       /\ (now >= startDate => currentDate' >= startDate)
       /\ loading' = FALSE
       /\ thrown' = thrown]_vars

\* C7 witness: after a switch to n4 a load has failed: nothing is loading,
\* the list is empty, no item is selected and a date is.
C7_Witness ==
  /\ started
  /\ ~loading
  /\ level = "n4"
  /\ kanjiList = <<>>
  /\ currentKanji = Null
  /\ currentDate # NullDate

\* C8: a day, calendar or hash handler that runs while loading is true and
\* resolves an item does so from the list of the current level.
C8_NoStaleSelectionWhileLoading ==
  [][(/\ loading
      /\ Len(kanjiList) > 0
      /\ \/ prevDay
         \/ nextDay
         \/ goToday
         \/ (hashchange /\ hashListener)
         \/ (calendarOpen /\ ~calendarOpen' /\ clickCalendarDay))
     => kanjiList = DataFor(level)]_vars

\* C9: at most one timer of the animation is pending at any time, and the
\* callback of a timer whose animation has been cancelled (strokeAnimating
\* false) leaves strokeStep alone.
C9_AnimationCancellable ==
  [][/\ timers' <= 1
     /\ ((strokeTimer /\ ~strokeAnimating) => strokeStep' = strokeStep)]_vars

\* C10: no handler ever throws.
C10_NoHandlerThrows == thrown = FALSE

\* C11: a step in which a handler calls selectKanjiForDate and an item is
\* resolved ends with the fragment equal to "#" followed by
\* formatDate(currentDate), which is ten characters of the shape
\* YYYY-MM-DD; the step adds no history entry and queues no hashchange
\* event.
C11_HashSync ==
  [][(SelectionStep /\ Len(kanjiList') > 0) =>
       /\ hash' = <<"#">> \o formatDate(currentDate')
       /\ MatchesDatePattern(Tail(hash'))
       /\ historyLength' = historyLength
       /\ hashEvents' <= hashEvents]_vars

\* C11 witness: the fragment was changed from outside, the event has been
\* dispatched, and the selection it caused has rewritten the fragment to
\* the clamped date, which is none of the fragments given from outside.
C11_Witness ==
  /\ hashListener
  /\ Len(kanjiList) > 0
  /\ historyLength = 2
  /\ hashEvents = 0
  /\ currentDate # NullDate
  /\ hash = <<"#">> \o formatDate(currentDate)
  /\ hash \notin ExternalHashes

\* C12: when the listener handles a hashchange event, the request given to
\* selectKanjiForDate is today, and today is selected, when the fragment is
\* absent or is not 4 digits, "-", 2 digits, "-", 2 digits; otherwise the
\* request is the date parsed from the fragment (2025-13-45 is the 45th day
\* from 2026-01-01) and the selected date is its clamp; nothing is thrown.
C12_HashNavigation ==
  [][(hashEvents' # hashEvents /\ hashListener /\ hashchange) =>
       LET h == IF Len(hash) = 0 THEN <<>> ELSE Tail(hash)
       IN  /\ IF Len(h) > 0 /\ MatchesDatePattern(h)
                THEN sel' = parseDate(h) /\ currentDate' = Clamp(parseDate(h), now)
                ELSE sel' = now /\ currentDate' = now
           /\ (hash = <<>>) => sel' = now
           /\ (hash = <<"#", "2", "0", "2", "6", "-", "1", "-", "3">>) => sel' = now
           /\ (hash = <<"#", "2", "0", "2", "6", "-", "0", "1", "-", "0", "3">>)
                => sel' = startDate + 2
           /\ (hash = <<"#", "2", "0", "2", "5", "-", "1", "2", "-", "2", "5">>)
                => sel' = startDate - 7
           /\ (hash = <<"#", "2", "0", "2", "5", "-", "1", "3", "-", "4", "5">>)
                => sel' = startDate + 44
           /\ thrown' = thrown]_vars

\* C12 witness: a malformed fragment given from outside has been handled:
\* the request was today, on a day other than the one selected before.
C12_Witness ==
  /\ hashListener
  /\ hashEvents = 0
  /\ historyLength = 2
  /\ hash = <<"#", "2", "0", "2", "6", "-", "1", "-", "3">>
  /\ kanjiList = <<>>
  /\ now > startDate
  /\ sel = now
  /\ currentDate = now

\* C13: for every date from the epoch on, formatDate gives a string that
\* matches the pattern navigateToHash tests, and parseDate of that string
\* is the date with the same year, month and day.
C13_FragmentRoundTrip ==
  call.fn = "formatDate" =>
    /\ (call.pc # "call" => (call.matches /\ Len(call.str) = 10))
    /\ (call.pc = "parsed" =>
          /\ getFullYear(call.parsed) = getFullYear(call.date)
          /\ getMonth(call.parsed) = getMonth(call.date)
          /\ getDate(call.parsed) = getDate(call.date)
          /\ sameDay(call.parsed, call.date))

\* C13 witness: 2028-02-29 has been written as 2028-02-29 and read back.
C13_Witness ==
  /\ call.fn = "formatDate"
  /\ call.pc = "parsed"
  /\ call.str = <<"2", "0", "2", "8", "-", "0", "2", "-", "2", "9">>
  /\ call.date = startDate + 789
  /\ call.parsed = call.date

\* C14: with a date selected, isStart holds exactly when currentDate is
\* the epoch and isToday exactly when it is today; prevDay leaves
\* currentDate at the epoch when isStart holds and otherwise moves it one
\* day back; nextDay leaves it at today when isToday holds and otherwise
\* moves it one day on.
C14_DayStepping ==
  [][currentDate # NullDate =>
       /\ isStart <=> (currentDate = startDate)
       /\ isToday <=> (currentDate = now)
       /\ (sel' = addDays(currentDate, -1) /\ prevDay) =>
            currentDate' = IF isStart THEN startDate ELSE currentDate - 1
       /\ (sel' = addDays(currentDate, 1) /\ nextDay) =>
            currentDate' = IF isToday THEN now ELSE currentDate + 1]_vars

\* C15: while the calendar is shown, the displayed month is not before the
\* month of the epoch and not after the month of today; a step of
\* calendarPrevMonth or calendarNextMonth keeps it so; and canCalendarPrev
\* (canCalendarNext) holds exactly when calendarPrevMonth
\* (calendarNextMonth) would change the displayed month.
C15_CalendarMonthInBounds ==
  calendarOpen =>
    LET shown == calendarYear * 12 + calendarMonth
    IN  /\ getFullYear(startDate) * 12 + getMonth(startDate) <= shown
        /\ shown <= getFullYear(now) * 12 + getMonth(now)
        /\ canCalendarPrev <=>
             ENABLED (calendarPrevMonth
                        /\ <<calendarYear, calendarMonth>>' # <<calendarYear, calendarMonth>>)
        /\ canCalendarNext <=>
             ENABLED (calendarNextMonth
                        /\ <<calendarYear, calendarMonth>>' # <<calendarYear, calendarMonth>>)

\* C16: for the displayed month, calendarDays is one blank cell for each
\* weekday from Sunday to the day before the weekday of the 1st, then one
\* cell for each day of the month in order, with its date, with disabled
\* exactly when the date is before the epoch or after today, isToday
\* exactly when it is today and isSelected exactly when it is currentDate;
\* and selectCalendarDay of a blank or disabled cell changes nothing.
C16_CalendarDays ==
  \A cells \in {calendarDays} :
    LET first  == NewDate(calendarYear, calendarMonth, 1)
        blanks == (first + 4) % 7
        leap   == (calendarYear % 4 = 0 /\ calendarYear % 100 # 0)
                    \/ calendarYear % 400 = 0
        days   == CASE calendarMonth \in {0, 2, 4, 6, 7, 9, 11} -> 31
                    [] calendarMonth \in {3, 5, 8, 10} -> 30
                    [] OTHER -> IF leap THEN 29 ELSE 28
    IN  /\ Len(cells) = blanks + days
        /\ \A i \in 1..blanks : cells[i].day = 0 /\ cells[i].date = NullDate
        /\ \A d \in 1..days :
             LET cell == cells[blanks + d]
             IN  /\ cell.day = d
                 /\ cell.date = first + (d - 1)
                 /\ cell.disabled <=> (cell.date < startDate \/ cell.date > now)
                 /\ cell.isToday <=> (cell.date = now)
                 /\ cell.isSelected <=> (cell.date = currentDate)
        /\ \A i \in DOMAIN cells :
             (cells[i].date = NullDate \/ cells[i].disabled) =>
               ~ENABLED (selectCalendarDay(cells[i]) /\ vars' # vars)

\* C16 witness: the calendar shows February 2027, a month of 28 days that
\* begins on a Monday, in which today is the 7th and is selected.
C16_Witness ==
  /\ calendarOpen
  /\ calendarYear = 2027
  /\ calendarMonth = 1
  /\ getDate(now) = 7
  /\ getMonth(now) = 1
  /\ currentDate = now
  /\ Len(calendarDays) = 29
  /\ calendarDays[8].isToday
  /\ calendarDays[8].isSelected
  /\ ~calendarDays[8].disabled
  /\ calendarDays[9].disabled

\* C17: with a date selected, dayNumber is the number of whole days from
\* the epoch to currentDate plus one: 1 on the epoch, 2 on the day after;
\* and it is at least 1.
C17_DayNumber ==
  currentDate # NullDate =>
    /\ dayNumber = (currentDate - startDate) + 1
    /\ (currentDate = startDate => dayNumber = 1)
    /\ (currentDate = startDate + 1 => dayNumber = 2)
    /\ dayNumber >= 1

\* C18: the L dates of cycle k >= 0 of a list of L different items use
\* one cycle number, k, and one seed, resolve the positions 0..L-1 in
\* order, and select every item of the list exactly once.
C18_CycleIsOnePass ==
  (call.fn = "cycle" /\ call.pc = "done") =>
    LET L == Len(call.list)
    IN  /\ call.cycleNums = {call.cycle}
        /\ call.seeds = {call.cycle * 31 + charCodeAt1(call.level)}
        /\ call.positions = [p \in 1..L |-> p - 1]
        /\ Len(call.picked) = L
        /\ \A i \in 1..L, j \in 1..L : i # j => call.picked[i] # call.picked[j]
        /\ \A k \in 1..L : \E i \in 1..L : call.picked[i] = call.list[k]

\* C18 witness: cycle 2 of a list of four items of n3 has been resolved, in
\* an order other than that of the list.
C18_Witness ==
  /\ call.fn = "cycle"
  /\ call.pc = "done"
  /\ call.level = "n3"
  /\ call.cycle = 2
  /\ Len(call.list) = 4
  /\ Len(call.picked) = 4
  /\ call.picked # call.list

\* C19: whenever loading is false, kanjiList is the list of the current
\* level (or empty, when its load failed) and currentKanji is the item
\* that currentDate, level and kanjiList determine.
C19_SelectionStateConsistent ==
  ~loading =>
    /\ kanjiList = DataFor(level) \/ kanjiList = <<>>
    /\ currentKanji = IF Len(kanjiList) = 0
                        THEN Null
                        ELSE Resolve(kanjiList, level, currentDate)

\* C20: the stroke animation terminates.  strokeStep is always -1 or in
\* 0..n, n the number of stroke paths of the current item; while
\* strokeAnimating is false no timer of the animation is pending; a timer
\* that fires during a run advances strokeStep by one, or ends the run when
\* n is reached; and once only timers fire, the run ends and stays ended,
\* with strokeAnimating false and strokeStep -1.
C20_StrokeAnimationTerminates ==
  /\ [](strokeStep = -1 \/ strokeStep \in 0..StrokeCount)
  /\ [](~strokeAnimating => timers = 0)
  /\ [][(strokeAnimating /\ HasStrokePaths(currentKanji) /\ strokeTimer)
          => IF strokeStep + 1 >= StrokeCount
               THEN ~strokeAnimating' /\ strokeStep' = -1
               ELSE strokeAnimating' /\ strokeStep' = strokeStep + 1]_vars
  /\ (<>[][strokeTimer]_vars => <>[](~strokeAnimating /\ strokeStep = -1))

====
